---- MODULE Spec2Model ----
(***************************************************************************)
(* spamtx: the transaction-spam engine (spamCmd -> validateConfig ->       *)
(* spamTransactions -> sendTransaction / sendHeavyTransaction).            *)
(*                                                                         *)
(* One run of the command is one behaviour.  The run is a single goroutine *)
(* whose position is pc; the ticker of time.NewTicker and the cancellation *)
(* of the context are the two things that act concurrently with it.        *)
(***************************************************************************)
EXTENDS Integers, Sequences, FiniteSets, TLC

\* ------------------------------------------------------------------ bounds

\* Pulses the ticker fires in one run (caps the run; every attempt needs one).
MaxPulses == 4

\* ------------------------------------------------------- program constants

\* time.NewTicker gives ticker.C a buffer of one tick; a tick that finds it
\* full is dropped.
TickerBuffer == 1

\* sendTransaction logs every attempt whose txNum % 100 == 0.
LogEvery == 100

\* calculateAddressCount: base transaction cost left out of the gas estimate.
GasOverhead == 50000

\* calculateAddressCount: gas estimated per MsgMultiSend output.
GasPerOutput == 15000

\* calculateAddressCount: the default number of outputs.
DefaultAddressCount == 10

\* ------------------------------------------------------------------- coins

\* sdk.Coins is a list of (Denom, Amount) sorted by denomination.  The
\* denominations of the model, in their sort order.
Denoms == <<"stake", "uatom">>

DenomRank(d) == CHOOSE i \in 1..Len(Denoms) : Denoms[i] = d

Coin(d, a) == [Denom |-> d, Amount |-> a]

\* coins.IsZero(): every coin of the list is zero (true of the empty list).
CoinsIsZero(coins) == \A i \in 1..Len(coins) : coins[i].Amount = 0

\* Faulty variant of CoinsQuoInt: the quotient is rounded up.
CoinsQuoIntCeil(coins, x) ==
    [i \in 1..Len(coins) |->
        Coin(coins[i].Denom, (coins[i].Amount + x - 1) \div x)]


\* coins.QuoInt(x): each amount integer-divided by x; zero coins are kept.
CoinsQuoInt(coins, x) ==
    [i \in 1..Len(coins) |-> Coin(coins[i].Denom, coins[i].Amount \div x)]

\* coins.MulInt(x): each amount multiplied by x.
CoinsMulInt(coins, x) ==
    [i \in 1..Len(coins) |-> Coin(coins[i].Denom, coins[i].Amount * x)]

\* A fee string is modelled by its reading: the comma-separated tokens, each
\* an (amount, denomination) pair, of a string that is a coin list, and no
\* reading for any other string.  The empty string reads as no token.
FeeStr(tokens) == [wellFormed |-> TRUE, tokens |-> tokens]

EmptyStr == FeeStr(<<>>)

Garbage == [wellFormed |-> FALSE, tokens |-> <<>>]

RECURSIVE InsertCoin(_, _)
InsertCoin(coins, c) ==
    IF coins = <<>> THEN <<c>>
    ELSE IF DenomRank(c.Denom) < DenomRank(Head(coins).Denom)
         THEN <<c>> \o coins
         ELSE <<Head(coins)>> \o InsertCoin(Tail(coins), c)

RECURSIVE SortCoins(_)
SortCoins(tokens) ==
    IF tokens = <<>> THEN <<>>
    ELSE InsertCoin(SortCoins(Tail(tokens)), Head(tokens))

\* sdk.ParseCoinsNormalized: an error for a string that is no coin list; the
\* zero coins are then removed, and what is left is an error when it names a
\* denomination twice and otherwise the result, sorted by denomination.
ParseCoinsNormalized(str) ==
    LET nonZero == SelectSeq(str.tokens, LAMBDA c : c.Amount # 0) IN
    IF ~str.wellFormed
      THEN [err |-> TRUE, coins |-> <<>>]
    ELSE IF \E i, j \in 1..Len(nonZero) :
                i # j /\ nonZero[i].Denom = nonZero[j].Denom
      THEN [err |-> TRUE, coins |-> <<>>]
    ELSE [err |-> FALSE, coins |-> SortCoins(nonZero)]

\* Faulty variant of parseAmount: a zero amount is let through.
parseAmountNoZeroCheck(amountStr) ==
    IF amountStr = EmptyStr
      THEN [err |-> "amount string cannot be empty", coins |-> <<>>]
    ELSE LET p == ParseCoinsNormalized(amountStr) IN
         IF p.err
           THEN [err |-> "failed to parse coins", coins |-> <<>>]
         ELSE [err |-> "nil", coins |-> p.coins]

\* parseAmount(amountStr): "nil" or the error it returns, and the coins.
parseAmount(amountStr) ==
    IF amountStr = EmptyStr
      THEN [err |-> "amount string cannot be empty", coins |-> <<>>]
    ELSE LET p == ParseCoinsNormalized(amountStr) IN
         IF p.err
           THEN [err |-> "failed to parse coins", coins |-> <<>>]
         ELSE IF CoinsIsZero(p.coins)
           THEN [err |-> "amount must be greater than zero", coins |-> <<>>]
         ELSE [err |-> "nil", coins |-> p.coins]

\* ------------------------------------------------------------------ config

\* Config, as the command line fills it.
MkConfig(tps, heavy, count, gas, fees) ==
    [Chain |-> "cosmoshub", Account |-> "alice", Fees |-> fees,
     Memo |-> "spam test", TPS |-> tps, GasLimit |-> gas, RPC |-> "",
     Heavy |-> heavy, HeavyAddressCount |-> count]

\* The configurations the runs of the model are started with.
RunConfigs ==
    { MkConfig(1, FALSE, 0, 0, FeeStr(<<Coin("uatom", 1000)>>)),
      MkConfig(2, FALSE, 0, 200000, FeeStr(<<Coin("uatom", 5)>>)),
      MkConfig(2, TRUE, 2, 0, FeeStr(<<Coin("uatom", 5), Coin("stake", 1)>>)),
      MkConfig(3, TRUE, 0, 0, FeeStr(<<Coin("uatom", 5)>>)),
      MkConfig(0, FALSE, 0, 0, FeeStr(<<Coin("uatom", 5)>>)),
      MkConfig(1, FALSE, 0, 0, FeeStr(<<Coin("uatom", 0)>>)),
      [MkConfig(1, FALSE, 0, 0, FeeStr(<<Coin("uatom", 1000)>>))
          EXCEPT !.RPC = "http://localhost:26657"] }

\* Faulty variant of validateConfig: the rate is not looked at.
validateConfigNoRate(c) ==
    IF c.Chain = "" THEN "chain name is required"
    ELSE IF c.Account = "" THEN "account address is required"
    ELSE IF c.Fees = EmptyStr THEN "fees are required"
    ELSE IF c.Memo = "" THEN "memo is required"
    ELSE "nil"

\* Faulty variant of validateConfig: the memo is looked at before the account.
validateConfigMemoFirst(c) ==
    IF c.Chain = "" THEN "chain name is required"
    ELSE IF c.Memo = "" THEN "memo is required"
    ELSE IF c.Account = "" THEN "account address is required"
    ELSE IF c.Fees = EmptyStr THEN "fees are required"
    ELSE IF c.TPS = 0 THEN "tps must be greater than 0"
    ELSE "nil"


\* validateConfig(config): "nil" or the error it returns.
validateConfig(c) ==
    IF c.Chain = "" THEN "chain name is required"
    ELSE IF c.Account = "" THEN "account address is required"
    ELSE IF c.Fees = EmptyStr THEN "fees are required"
    ELSE IF c.Memo = "" THEN "memo is required"
    ELSE IF c.TPS = 0 THEN "tps must be greater than 0"
    ELSE "nil"

\* What the chain registry answers to one call of getChainInfo: whether
\* FetchChains fails, whether the chain is in registry.Chains, whether
\* EnrichChain fails, and the RPC endpoints (by their addresses) and the
\* bech32 prefix the enriched chain has.  The registry is filled from data
\* fetched over the network, which getChainInfo reads as it comes.
RegistryAnswers ==
    [fetchErr : BOOLEAN, exists : BOOLEAN, enrichErr : BOOLEAN,
     RPC : {<<>>, <<"">>, <<"https://rpc.cosmos.network">>,
            <<"https://rpc.cosmos.network", "https://rpc.two">>,
            <<"", "https://rpc.two">>},
     Bech32Prefix : {"", "cosmos"}]

\* getChainInfo(chainName), the registry answering `reg`: the endpoint, the
\* prefix and the error ("nil" for none) it returns.
getChainInfo(chainName, reg) ==
    IF reg.fetchErr
      THEN [rpcEndpoint |-> "", bech32Prefix |-> "",
            err |-> "failed to fetch chains"]
    ELSE IF ~reg.exists
      THEN [rpcEndpoint |-> "", bech32Prefix |-> "",
            err |-> "chain not found in registry"]
    ELSE IF reg.enrichErr
      THEN [rpcEndpoint |-> "", bech32Prefix |-> "",
            err |-> "failed to enrich chain"]
    ELSE IF Len(reg.RPC) = 0
      THEN [rpcEndpoint |-> "", bech32Prefix |-> "",
            err |-> "no RPC endpoints found for chain"]
    ELSE IF reg.Bech32Prefix = ""
      THEN [rpcEndpoint |-> "", bech32Prefix |-> "",
            err |-> "no bech32 prefix found for chain"]
    ELSE [rpcEndpoint |-> reg.RPC[1], bech32Prefix |-> reg.Bech32Prefix,
          err |-> "nil"]

\* The answers of the registry in the runs: of the answers above, those in
\* which a chain has no RPC endpoint or the one endpoint below.
RunRegistryAnswers ==
    {reg \in RegistryAnswers :
         reg.RPC \in {<<>>, <<"https://rpc.cosmos.network">>}}

\* The registry has not been asked.
NotAsked == [asked |-> FALSE]

\* The account sequences the network may answer fetchAccountSequence with.
BaseSequences == {0, 7}

\* ------------------------------------------------------------------- state

VARIABLES
    config,        \* the Config spamCmd's RunE works on
    pc,            \* the position of the run
    result,        \* what RunE returns: "running", "nil" or the error
    cancelled,     \* ctx.Done() is closed
    sequence,      \* spamTransactions: the sequence fetched at start
    amount,        \* spamTransactions: the coins parsed from config.Fees
    txCount,       \* spamTransactions: the transactions sent so far
    tickerOn,      \* the ticker exists and has not been stopped
    tickerC,       \* the ticks buffered in ticker.C
    cur,           \* the arguments of the send call in progress
    stdout,        \* the lines printed by fmt.Printf
    calls,         \* history: the pre-run calls made, in order
    attempts,      \* history: the send calls completed, in order
    pulses,        \* history: the ticks the ticker has fired
    inflight,      \* history: the send calls started and not completed
    startsSincePulse,    \* history: send calls started since the last tick
    acceptedAtCancel,    \* history: accepted attempts when ctx was cancelled
    startedAfterCancel,  \* history: send calls started after the cancel
    acceptedAfterCancel, \* history: attempts accepted after the cancel
    failed,        \* history: the pre-run call that returned an error
    rpcEndpoint,   \* the endpoint the client is given
    bech32Prefix,  \* the address prefix the client is given
    registry,      \* history: what the chain registry answered
    probe          \* a function of the program called on its own

vars == <<config, pc, result, cancelled, sequence, amount, txCount, tickerOn,
          tickerC, cur, stdout, calls, attempts, pulses, inflight,
          startsSincePulse, acceptedAtCancel, startedAfterCancel,
          acceptedAfterCancel, failed, rpcEndpoint, bech32Prefix, registry,
          probe>>

chain == <<rpcEndpoint, bech32Prefix, registry>>

locals == <<sequence, amount, txCount>>

ticker == <<tickerOn, tickerC, pulses>>

loopHistory == <<attempts, inflight, startsSincePulse, startedAfterCancel,
                 acceptedAfterCancel>>

\* No function is called on its own: the behaviour is a run of the command.
NoProbe == [fn |-> "none"]

\* No send call is in progress.
NoCall == [active |-> FALSE]

\* The run is inside the for loop of spamTransactions.
InLoop == pc \in {"select", "send"}

\* The attempts of a log that were accepted.
Accepted(log) == {i \in 1..Len(log) : log[i].err = "nil"}

Init ==
    /\ config \in RunConfigs
    /\ pc = "RunE"
    /\ result = "running"
    /\ cancelled = FALSE
    /\ sequence = 0
    /\ amount = <<>>
    /\ txCount = 0
    /\ tickerOn = FALSE
    /\ tickerC = 0
    /\ cur = NoCall
    /\ stdout = <<>>
    /\ calls = <<>>
    /\ attempts = <<>>
    /\ pulses = 0
    /\ inflight = 0
    /\ startsSincePulse = 0
    /\ acceptedAtCancel = 0
    /\ startedAfterCancel = 0
    /\ acceptedAfterCancel = 0
    /\ failed = "none"
    /\ rpcEndpoint = ""
    /\ bech32Prefix = ""
    /\ registry = NotAsked
    /\ probe = NoProbe

\* ----------------------------------------------------------------- pre-run

\* Cancellation of the context, by the caller, at any moment of the run.
Cancel ==
    /\ ~cancelled
    /\ pc \notin {"done", "none"}
    /\ cancelled' = TRUE
    /\ acceptedAtCancel' = Cardinality(Accepted(attempts))
    /\ UNCHANGED <<config, probe, failed, chain,
                   pc, result, locals, ticker, cur, stdout, calls,
                   loopHistory>>

\* spamCmd's RunE: validateConfig, then spamTransactions.
RunE ==
    /\ pc = "RunE"
    /\ LET err == validateConfig(config) IN
       IF err # "nil"
         THEN pc' = "done" /\ result' = err
         ELSE pc' = "getChainInfo" /\ result' = result
    /\ UNCHANGED <<config, probe, failed, chain,
                   cancelled, locals, ticker, cur, stdout, calls,
                   loopHistory, acceptedAtCancel>>

\* Faulty variant of PreRunCall: the error of the call is dropped and the run
\* goes on.
PreRunCallIgnoreErr(here, ok, next, errText) ==
    /\ pc = here
    /\ calls' = Append(calls, here)
    /\ pc' = next
    /\ result' = result
    /\ failed' = IF ok THEN failed ELSE here
    /\ UNCHANGED <<config, probe, cancelled, ticker, cur, stdout,
                   loopHistory, acceptedAtCancel>>

\* Faulty variant of PreRunCall: a call that fails after the context was
\* cancelled ends the run with nil, like a cancellation taken in the loop.
PreRunCallNilOnCancel(here, ok, next, errText) ==
    /\ pc = here
    /\ calls' = Append(calls, here)
    /\ IF ok
         THEN pc' = next /\ result' = result /\ failed' = failed
         ELSE /\ pc' = "done"
              /\ result' = IF cancelled THEN "nil" ELSE errText
              /\ failed' = here
    /\ UNCHANGED <<config, probe, cancelled, ticker, cur, stdout,
                   loopHistory, acceptedAtCancel>>


\* One pre-run call of spamTransactions: it is made at `here`; when it fails
\* spamTransactions returns the error wrapped with `errText`, otherwise the
\* run goes on at `next`.
PreRunCall(here, ok, next, errText) ==
    /\ pc = here
    /\ calls' = Append(calls, here)
    /\ IF ok
         THEN pc' = next /\ result' = result /\ failed' = failed
         ELSE pc' = "done" /\ result' = errText /\ failed' = here
    /\ UNCHANGED <<config, probe, cancelled, ticker, cur, stdout,
                   loopHistory, acceptedAtCancel>>

\* Faulty variant of GetChainInfo: the endpoint of the registry is used even
\* when config.RPC is set.
GetChainInfoOverrideIgnored ==
    \E reg \in RunRegistryAnswers :
        LET r == getChainInfo(config.Chain, reg) IN
        /\ PreRunCall("getChainInfo", r.err = "nil", "getKeyringHome",
                      IF config.RPC # "" THEN "failed to get chain info for bech32 prefix"
                                         ELSE "failed to get chain info")
        /\ registry' = reg
        /\ rpcEndpoint' = r.rpcEndpoint
        /\ bech32Prefix' = r.bech32Prefix
        /\ UNCHANGED locals


\* rpcEndpoint, bech32Prefix, err = getChainInfo(config.Chain), the endpoint
\* being config.RPC when that is set.
GetChainInfo ==
    \E reg \in RunRegistryAnswers :
        LET r == getChainInfo(config.Chain, reg) IN
        /\ PreRunCall("getChainInfo", r.err = "nil", "getKeyringHome",
                      IF config.RPC # ""
                        THEN "failed to get chain info for bech32 prefix"
                        ELSE "failed to get chain info")
        /\ registry' = reg
        /\ rpcEndpoint' = IF config.RPC # "" THEN config.RPC
                                              ELSE r.rpcEndpoint
        /\ bech32Prefix' = r.bech32Prefix
        /\ UNCHANGED locals

GetKeyringHome ==
    \E ok \in BOOLEAN :
        /\ PreRunCall("getKeyringHome", ok, "cosmosclient.New",
                      "failed to get keyring home")
        /\ UNCHANGED <<locals, chain>>

NewClient ==
    \E ok \in BOOLEAN :
        /\ PreRunCall("cosmosclient.New", ok, "client.Account",
                      "failed to create cosmos client")
        /\ UNCHANGED <<locals, chain>>

ClientAccount ==
    \E ok \in BOOLEAN :
        /\ PreRunCall("client.Account", ok, "account.Address",
                      "failed to get account from cosmos client keyring")
        /\ UNCHANGED <<locals, chain>>

AccountAddress ==
    \E ok \in BOOLEAN :
        /\ PreRunCall("account.Address", ok, "verifyAccountExists",
                      "failed to get account from keyring")
        /\ UNCHANGED <<locals, chain>>

\* Faulty variant of VerifyAccountExists: the answer of the on-chain check
\* is not looked at and the run goes on to the sequence fetch.
VerifyAccountExistsUnchecked ==
    \E ok \in BOOLEAN :
        /\ PreRunCallIgnoreErr("verifyAccountExists", ok,
                               "fetchAccountSequence",
                               "account verification failed")
        /\ UNCHANGED <<locals, chain>>

\* if err := verifyAccountExists(ctx, &client, address); err != nil
VerifyAccountExists ==
    \E ok \in BOOLEAN :
        /\ PreRunCall("verifyAccountExists", ok, "fetchAccountSequence",
                      "account verification failed")
        /\ UNCHANGED <<locals, chain>>

\* sequence, err := fetchAccountSequence(...): the network answers with the
\* account's sequence, or the query fails.
FetchAccountSequence ==
    \/ /\ PreRunCall("fetchAccountSequence", FALSE, "parseAmount",
                      "failed to fetch account sequence")
       /\ UNCHANGED <<locals, chain>>
    \/ \E s \in BaseSequences :
           /\ PreRunCall("fetchAccountSequence", TRUE, "parseAmount", "")
           /\ sequence' = s
           /\ UNCHANGED <<amount, txCount, chain>>

\* amount, err := parseAmount(config.Fees)
ParseAmount ==
    LET r == parseAmount(config.Fees) IN
    /\ PreRunCall("parseAmount", r.err = "nil", "NewTicker",
                  "failed to parse fees as amount")
    /\ amount' = r.coins
    /\ UNCHANGED <<sequence, txCount, chain>>

\* interval := time.Second / time.Duration(config.TPS), in nanoseconds.
Interval(tps) == 1000000000 \div tps

\* ticker := time.NewTicker(interval), which panics on an interval that is
\* not positive; defer ticker.Stop(); var txCount uint64 = 0
NewTicker ==
    /\ pc = "NewTicker"
    /\ calls' = Append(calls, "NewTicker")
    /\ IF Interval(config.TPS) > 0
         THEN /\ pc' = "select"
              /\ result' = result
              /\ tickerOn' = TRUE
         ELSE /\ pc' = "done"
              /\ result' = "panic: non-positive interval for NewTicker"
              /\ tickerOn' = FALSE
    /\ tickerC' = 0
    /\ txCount' = 0
    /\ UNCHANGED <<config, probe, failed, chain,
                   cancelled, sequence, amount, pulses, cur, stdout,
                   loopHistory, acceptedAtCancel>>

\* ------------------------------------------------------------------ ticker

\* Faulty variant of TickerSend: a channel that queues every tick.
TickerSendQueued(c) == c + 1

\* The runtime's send of a tick on ticker.C: buffered when there is room,
\* dropped otherwise.
TickerSend(c) == IF c < TickerBuffer THEN c + 1 ELSE c

\* The ticker fires.
Tick ==
    /\ tickerOn
    /\ pulses < MaxPulses
    /\ pulses' = pulses + 1
    /\ tickerC' = TickerSend(tickerC)
    /\ startsSincePulse' = 0
    /\ UNCHANGED <<config, probe, failed, chain,
                   pc, result, cancelled, locals, tickerOn, cur,
                   stdout, calls, attempts, inflight, acceptedAtCancel,
                   startedAfterCancel, acceptedAfterCancel>>

\* ------------------------------------------------------------- the messages

\* The address account.Address(bech32Prefix) gives for the run's account.
AccountAddr == "addr(alice)"

\* banktypes.MsgSend of sendTransaction.
MsgSend(amt) ==
    [type |-> "MsgSend", FromAddress |-> AccountAddr,
     ToAddress |-> AccountAddr, Amount |-> amt]

\* The quotient Go computes for a gas limit below the overhead, where the
\* uint64 subtraction wraps: (2^64 + g - 50000) / 15000, which is above
\* 10^15 for every such g.  It stands here as the largest integer of TLC.
WrappedCount == 2147483647

\* calculateAddressCount(config)
calculateAddressCount(c) ==
    IF c.HeavyAddressCount > 0 THEN c.HeavyAddressCount
    ELSE LET estimatedCount ==
                 IF c.GasLimit >= GasOverhead
                   THEN (c.GasLimit - GasOverhead) \div GasPerOutput
                   ELSE WrappedCount
         IN  IF c.GasLimit > 0 /\ estimatedCount > 0
               THEN estimatedCount
               ELSE DefaultAddressCount

\* Faulty variant of AmountPerOutput: one unit of the first denomination as
\* soon as one denomination divides to zero.
AmountPerOutputAnyZero(amt, outputCount) ==
    LET quo == CoinsQuoInt(amt, outputCount) IN
    IF \E i \in 1..Len(quo) : quo[i].Amount = 0
      THEN <<Coin(amt[1].Denom, 1)>>
      ELSE quo

\* Faulty variant of AmountPerOutput: the fallback is taken when the first
\* denomination divides to zero.
AmountPerOutputFirstZero(amt, outputCount) ==
    LET quo == CoinsQuoInt(amt, outputCount) IN
    IF Len(amt) > 0 /\ quo[1].Amount = 0
      THEN <<Coin(amt[1].Denom, 1)>>
      ELSE quo


\* sendHeavyTransaction: the amount of each output.
AmountPerOutput(amt, outputCount) ==
    LET quo == CoinsQuoInt(amt, outputCount) IN
    IF CoinsIsZero(quo) /\ Len(amt) > 0
      THEN <<Coin(amt[1].Denom, 1)>>
      ELSE quo

\* Faulty variant of MsgMultiSend: the input carries the amount of the run.
MsgMultiSendInputIsAmount(c, amt) ==
    LET outputCount == calculateAddressCount(c)
        amountPerOutput == AmountPerOutput(amt, outputCount)
    IN  [type |-> "MsgMultiSend",
         Inputs |-> <<[Address |-> AccountAddr, Coins |-> amt]>>,
         Outputs |-> [i \in 1..outputCount |->
                         [Address |-> AccountAddr, Coins |-> amountPerOutput]]]

\* Faulty variant of MsgMultiSend: outputs are dropped until their total is
\* within the amount of the run.
MsgMultiSendCapped(c, amt) ==
    LET outputCount == calculateAddressCount(c)
        amountPerOutput == AmountPerOutput(amt, outputCount)
        fits == {n \in 1..outputCount :
                    \A i \in 1..Len(amountPerOutput) :
                        \E j \in 1..Len(amt) :
                            /\ amt[j].Denom = amountPerOutput[i].Denom
                            /\ amountPerOutput[i].Amount * n <= amt[j].Amount}
        kept == IF fits = {} THEN 1
                ELSE CHOOSE n \in fits : \A k \in fits : k <= n
    IN  [type |-> "MsgMultiSend",
         Inputs |-> <<[Address |-> AccountAddr,
                       Coins |-> CoinsMulInt(amountPerOutput, kept)]>>,
         Outputs |-> [i \in 1..kept |->
                         [Address |-> AccountAddr, Coins |-> amountPerOutput]]]

\* banktypes.MsgMultiSend of sendHeavyTransaction.
MsgMultiSend(c, amt) ==
    LET outputCount == calculateAddressCount(c)
        amountPerOutput == AmountPerOutput(amt, outputCount)
        totalOutput == CoinsMulInt(amountPerOutput, outputCount)
    IN  [type |-> "MsgMultiSend",
         Inputs |-> <<[Address |-> AccountAddr, Coins |-> totalOutput]>>,
         Outputs |-> [i \in 1..outputCount |->
                         [Address |-> AccountAddr, Coins |-> amountPerOutput]]]

\* No message was built.
NoMsg == [type |-> "none"]

\* ------------------------------------------------------------ the send call

\* What the collaborators answer during one send call: whether
\* account.Address, CreateTxWithOptions and BroadcastAsync fail (a timeout
\* of the 30 s bound is a failure of BroadcastAsync), and the response code.
Answers ==
    [addressErr : BOOLEAN, createErr : BOOLEAN, broadcastErr : BOOLEAN,
     code : {0, 5}]

\* Faulty variant of sendTransaction: the code of the response is not looked
\* at.
sendTransactionIgnoresCode(call, ans) ==
    LET msg == IF call.heavy THEN MsgMultiSend(call.config, call.amount)
                             ELSE MsgSend(call.amount)
    IN
    IF ans.addressErr
      THEN [err |-> "failed to get account address", msg |-> NoMsg,
            broadcast |-> FALSE, logged |-> FALSE]
    ELSE IF ans.createErr
      THEN [err |-> "failed to create transaction", msg |-> msg,
            broadcast |-> FALSE, logged |-> FALSE]
    ELSE IF ans.broadcastErr
      THEN [err |-> "failed to broadcast transaction", msg |-> msg,
            broadcast |-> TRUE, logged |-> FALSE]
    ELSE [err |-> "nil", msg |-> msg, broadcast |-> TRUE,
          logged |-> (call.txNum % LogEvery = 0)]

\* Faulty variant of sendTransaction: the error of CreateTxWithOptions is
\* not looked at and the broadcast is made.
sendTransactionCreateErrIgnored(call, ans) ==
    LET msg == IF call.heavy THEN MsgMultiSend(call.config, call.amount)
                             ELSE MsgSend(call.amount)
    IN
    IF ans.addressErr
      THEN [err |-> "failed to get account address", msg |-> NoMsg,
            broadcast |-> FALSE, logged |-> FALSE]
    ELSE IF ans.broadcastErr
      THEN [err |-> "failed to broadcast transaction", msg |-> msg,
            broadcast |-> TRUE, logged |-> FALSE]
    ELSE IF ans.code # 0
      THEN [err |-> "transaction failed with code", msg |-> msg,
            broadcast |-> TRUE, logged |-> FALSE]
    ELSE [err |-> "nil", msg |-> msg, broadcast |-> TRUE,
          logged |-> (call.txNum % LogEvery = 0)]

\* sendTransaction / sendHeavyTransaction with arguments `call`, the
\* collaborators answering `ans`: the error returned ("nil" for none), the
\* message built, whether BroadcastAsync was called, and whether the
\* transaction was logged.
sendTransaction(call, ans) ==
    LET msg == IF call.heavy THEN MsgMultiSend(call.config, call.amount)
                             ELSE MsgSend(call.amount)
    IN
    IF ans.addressErr
      THEN [err |-> "failed to get account address", msg |-> NoMsg,
            broadcast |-> FALSE, logged |-> FALSE]
    ELSE IF ans.createErr
      THEN [err |-> "failed to create transaction", msg |-> msg,
            broadcast |-> FALSE, logged |-> FALSE]
    ELSE IF ans.broadcastErr
      THEN [err |-> "failed to broadcast transaction", msg |-> msg,
            broadcast |-> TRUE, logged |-> FALSE]
    ELSE IF ans.code # 0
      THEN [err |-> "transaction failed with code", msg |-> msg,
            broadcast |-> TRUE, logged |-> FALSE]
    ELSE [err |-> "nil", msg |-> msg, broadcast |-> TRUE,
          logged |-> (call.txNum % LogEvery = 0)]

\* -------------------------------------------------------------------- loop

\* Faulty variant of CurrentSequence: the base alone, the count forgotten.
CurrentSequenceStale(base, count) == base

\* The sequence argument of the send call: sequence+txCount.
CurrentSequence(base, count) == base + count

\* Faulty variant of Receive: the tick is read and left in the channel.
ReceivePeek(c) == c

\* The receive from ticker.C.
Receive(c) == c - 1

\* Faulty variant of CallSend: the send runs in a goroutine of its own and the loop
\* is back at its select at once.
CallSendAsync == "select"

\* The send call is an ordinary call: the loop is in it until it returns.
CallSend == "send"

\* case <-ticker.C: the select takes a buffered tick and the send call
\* starts with its arguments evaluated.
TakePulse ==
    /\ pc = "select"
    /\ tickerC > 0
    /\ tickerC' = Receive(tickerC)
    /\ cur' = [active |-> TRUE, heavy |-> config.Heavy, config |-> config,
               amount |-> amount, txNum |-> txCount, memo |-> config.Memo,
               sequence |-> CurrentSequence(sequence, txCount)]
    /\ pc' = CallSend
    /\ inflight' = inflight + 1
    /\ startsSincePulse' = startsSincePulse + 1
    /\ startedAfterCancel' = startedAfterCancel + (IF cancelled THEN 1 ELSE 0)
    /\ UNCHANGED <<config, probe, failed, chain,
                   result, cancelled, locals, tickerOn, pulses,
                   stdout, calls, attempts, acceptedAtCancel,
                   acceptedAfterCancel>>

\* Faulty variant of TxCountAfter: the count advances on a failure too.
TxCountAlways(count, err) == count + 1

\* The success count after a send call that returned err.
TxCountAfter(count, err) == IF err # "nil" THEN count ELSE count + 1

\* Faulty variant of AfterSend: an error of the send call ends the run.
AfterSendReturnErr(err) == IF err # "nil" THEN "done" ELSE "select"

\* Where the run goes after a send call that returned err: `continue` on
\* an error, the end of the case otherwise; both are the select.
AfterSend(err) == IF err # "nil" THEN "select" ELSE "select"

\* Faulty variant of Milestone: the line is printed after every accepted
\* transaction.
MilestoneAlways(count, tps) == <<[line |-> "Sent", n |-> count, rate |-> tps]>>


\* The milestone line, printed when the new count is a multiple of the rate.
Milestone(count, tps) ==
    IF count % tps = 0
      THEN <<[line |-> "Sent", n |-> count, rate |-> tps]>>
      ELSE <<>>

\* Faulty variant of CompleteSend: after a failed send the sequence is fetched again.
CompleteSendRefetch ==
    /\ pc = "send"
    /\ \E ans \in Answers :
        LET r == sendTransaction(cur, ans) IN
        /\ txCount' = TxCountAfter(txCount, r.err)
        /\ stdout' = IF r.err # "nil" THEN stdout
                      ELSE stdout \o Milestone(txCount', config.TPS)
        /\ pc' = AfterSend(r.err)
        /\ result' = IF pc' = "done" THEN r.err ELSE result
        /\ attempts' = Append(attempts,
                              [sequence |-> cur.sequence, txNum |-> cur.txNum,
                               amount |-> cur.amount, err |-> r.err,
                               node |-> rpcEndpoint,
                               msg |-> r.msg, broadcast |-> r.broadcast,
                               logged |-> r.logged,
                               failureLogged |-> r.err # "nil",
                               milestone |-> stdout' # stdout])
        /\ acceptedAfterCancel' =
               acceptedAfterCancel + (IF cancelled /\ r.err = "nil" THEN 1 ELSE 0)
        /\ IF r.err # "nil"
             THEN /\ sequence' \in BaseSequences
                  /\ calls' = Append(calls, "fetchAccountSequence")
             ELSE UNCHANGED <<sequence, calls>>
    /\ cur' = NoCall
    /\ inflight' = inflight - 1
    /\ UNCHANGED <<config, probe, failed, chain,
                   cancelled, amount, ticker, startsSincePulse,
                   acceptedAtCancel, startedAfterCancel>>

\* Faulty variant of CompleteSend: a failed send call is made again at once,
\* in the same slot, with the same arguments.
CompleteSendRetry ==
    /\ pc = "send"
    /\ \E ans \in Answers :
        LET r == sendTransaction(cur, ans) IN
        /\ txCount' = TxCountAfter(txCount, r.err)
        /\ stdout' = IF r.err # "nil" THEN stdout
                      ELSE stdout \o Milestone(txCount', config.TPS)
        /\ pc' = IF r.err # "nil" THEN "send" ELSE "select"
        /\ cur' = IF r.err # "nil" THEN cur ELSE NoCall
        /\ inflight' = IF r.err # "nil" THEN inflight ELSE inflight - 1
        /\ result' = result
        /\ attempts' = Append(attempts,
                              [sequence |-> cur.sequence, txNum |-> cur.txNum,
                               amount |-> cur.amount, err |-> r.err,
                               node |-> rpcEndpoint,
                               msg |-> r.msg, broadcast |-> r.broadcast,
                               logged |-> r.logged,
                               failureLogged |-> r.err # "nil",
                               milestone |-> stdout' # stdout])
        /\ acceptedAfterCancel' =
               acceptedAfterCancel + (IF cancelled /\ r.err = "nil" THEN 1 ELSE 0)
    /\ UNCHANGED <<config, probe, failed, chain,
                   cancelled, sequence, amount, ticker, calls,
                   startsSincePulse, acceptedAtCancel, startedAfterCancel>>


\* The send call returns and the rest of the case runs.
CompleteSend ==
    /\ pc = "send"
    /\ \E ans \in Answers :
        LET r == sendTransaction(cur, ans) IN
        /\ txCount' = TxCountAfter(txCount, r.err)
        /\ stdout' = IF r.err # "nil" THEN stdout
                      ELSE stdout \o Milestone(txCount', config.TPS)
        /\ pc' = AfterSend(r.err)
        /\ result' = IF pc' = "done" THEN r.err ELSE result
        /\ attempts' = Append(attempts,
                              [sequence |-> cur.sequence, txNum |-> cur.txNum,
                               amount |-> cur.amount, err |-> r.err,
                               node |-> rpcEndpoint,
                               msg |-> r.msg, broadcast |-> r.broadcast,
                               logged |-> r.logged,
                               failureLogged |-> r.err # "nil",
                               milestone |-> stdout' # stdout])
        /\ acceptedAfterCancel' =
               acceptedAfterCancel + (IF cancelled /\ r.err = "nil" THEN 1 ELSE 0)
    /\ cur' = NoCall
    /\ inflight' = inflight - 1
    /\ UNCHANGED <<config, probe, failed, chain,
                   cancelled, sequence, amount, ticker, calls,
                   startsSincePulse, acceptedAtCancel, startedAfterCancel>>

\* Faulty variant of Total: the attempts made are reported, failures included.
TotalOfAttempts(count) == [line |-> "Sent total", n |-> Len(attempts)]

\* The total printed on cancellation.
Total(count) == [line |-> "Sent total", n |-> count]

\* case <-ctx.Done(): print the total, return nil; the deferred
\* ticker.Stop() runs.
ObserveCancel ==
    /\ pc = "select"
    /\ cancelled
    /\ stdout' = Append(stdout, Total(txCount))
    /\ result' = "nil"
    /\ pc' = "done"
    /\ tickerOn' = FALSE
    /\ UNCHANGED <<config, probe, failed, chain,
                   cancelled, locals, tickerC, pulses, cur, calls,
                   loopHistory, acceptedAtCancel>>

\* --------------------------------------------------------- specification

Next ==
    \/ Cancel
    \/ RunE
    \/ GetChainInfo
    \/ GetKeyringHome
    \/ NewClient
    \/ ClientAccount
    \/ AccountAddress
    \/ VerifyAccountExists
    \/ FetchAccountSequence
    \/ ParseAmount
    \/ NewTicker
    \/ Tick
    \/ TakePulse
    \/ CompleteSend
    \/ ObserveCancel

Spec == Init /\ [][Next]_vars

\* ----------------------------------------------------------------- keyring

\* An account name is modelled by what validateAccountName reads of it: its
\* length and whether it contains a space; id tells the names apart.
AccountName(id, len, space) == [id |-> id, len |-> len, space |-> space]

\* The account names of the model: the empty name, a name of one character,
\* a name with a space, two ordinary names, and names of 50 and 51
\* characters.
AccountNames ==
    { AccountName("", 0, FALSE), AccountName("a", 1, FALSE),
      AccountName("my account", 10, TRUE), AccountName("alice", 5, FALSE),
      AccountName("bob", 3, FALSE), AccountName("x50", 50, FALSE),
      AccountName("x51", 51, FALSE) }

\* validateAccountName(name): "nil" or the error it returns.
validateAccountName(name) ==
    IF name.len = 0 THEN "account name cannot be empty"
    ELSE IF name.space THEN "account name cannot contain spaces"
    ELSE IF name.len < 2
      THEN "account name must be at least 2 characters long"
    ELSE IF name.len > 50
      THEN "account name must be less than 50 characters long"
    ELSE "nil"

\* The keyring is the list of the accounts it holds, by name.
HasAccount(accounts, name) == \E i \in 1..Len(accounts) : accounts[i] = name

\* The names the calls on a keyring are made with: the empty name, a name of
\* one character, a name with a space and two ordinary names.
KeyringNames == {name \in AccountNames : name.len <= 10}

\* What the keyring does during one call besides looking the name up:
\* whether GetByName fails with an error other than "does not exist", and
\* whether Create fails.
KeyringAnswers == [getFails : BOOLEAN, createFails : BOOLEAN]

\* Faulty variant of getOrCreateAccount: the account is created without a
\* look at the keyring.
getOrCreateAccountAlwaysCreates(accounts, name, ans) ==
    IF validateAccountName(name) # "nil"
      THEN [err |-> validateAccountName(name), created |-> FALSE,
            account |-> "", accounts |-> accounts]
    ELSE IF ans.createFails
      THEN [err |-> "failed to create account", created |-> FALSE,
            account |-> "", accounts |-> accounts]
    ELSE [err |-> "nil", created |-> TRUE, account |-> name.id,
          accounts |-> Append(accounts, name)]

\* getOrCreateAccount(registry, accountName), the keyring holding `accounts`
\* and answering `ans`: the error ("nil" for none), created, the name of the
\* account returned, and the accounts the keyring holds afterwards.
getOrCreateAccount(accounts, name, ans) ==
    IF validateAccountName(name) # "nil"
      THEN [err |-> validateAccountName(name), created |-> FALSE,
            account |-> "", accounts |-> accounts]
    ELSE IF ans.getFails
      THEN [err |-> "failed to get account", created |-> FALSE,
            account |-> "", accounts |-> accounts]
    ELSE IF HasAccount(accounts, name)
      THEN [err |-> "nil", created |-> FALSE, account |-> name.id,
            accounts |-> accounts]
    ELSE IF ans.createFails
      THEN [err |-> "failed to create account", created |-> FALSE,
            account |-> "", accounts |-> accounts]
    ELSE [err |-> "nil", created |-> TRUE, account |-> name.id,
          accounts |-> Append(accounts, name)]

\* The answers getOrCreateAccount can get from the keyring holding
\* `accounts`: GetByName is asked for a valid name only, and Create only
\* when GetByName found no account; an answer never asked for is FALSE.
GetOrCreateAnswers(accounts, name) ==
    {ans \in KeyringAnswers :
        /\ (validateAccountName(name) # "nil") => ~ans.getFails
        /\ (\/ validateAccountName(name) # "nil"
            \/ ans.getFails
            \/ HasAccount(accounts, name)) => ~ans.createFails}

\* What importAccount is given besides the name, and what happens during
\* the call: the secret, whether registry.Import fails for a reason other
\* than an account of that name being there, and whether account.Address
\* fails.
ImportAnswers ==
    [secret : {"", "mnemonic"}, importFails : BOOLEAN, addressFails : BOOLEAN]

\* importAccount(registry, name, secret, passphrase, bech32prefix), the
\* keyring holding `accounts`; registry.Import refuses a name the keyring
\* holds.
importAccount(accounts, name, ans) ==
    IF validateAccountName(name) # "nil"
      THEN [err |-> validateAccountName(name), created |-> FALSE,
            account |-> "", accounts |-> accounts]
    ELSE IF ans.secret = ""
      THEN [err |-> "secret (mnemonic or private key) cannot be empty",
            created |-> FALSE, account |-> "", accounts |-> accounts]
    ELSE IF HasAccount(accounts, name) \/ ans.importFails
      THEN [err |-> "failed to import account", created |-> FALSE,
            account |-> "", accounts |-> accounts]
    ELSE IF ans.addressFails
      THEN [err |-> "failed to get account address", created |-> TRUE,
            account |-> "", accounts |-> Append(accounts, name)]
    ELSE [err |-> "nil", created |-> TRUE, account |-> name.id,
          accounts |-> Append(accounts, name)]

\* The calls of importAccount on the keyring holding `accounts`: with a
\* secret, and for one valid name without; Import is asked for a valid name
\* with a secret only, and Address only when Import gave an account.
ImportCalls(accounts, name) ==
    {ans \in ImportAnswers :
        /\ ans.secret = "" => name.id = "alice"
        /\ (\/ validateAccountName(name) # "nil"
            \/ ans.secret = ""
            \/ HasAccount(accounts, name)) => ~ans.importFails
        /\ (\/ validateAccountName(name) # "nil"
            \/ ans.secret = ""
            \/ HasAccount(accounts, name)
            \/ ans.importFails) => ~ans.addressFails}

\* What the keyring does during one call of deleteAccount: whether
\* GetByName fails with an error other than "does not exist", and whether
\* DeleteByName fails.
DeleteAnswers == [getFails : BOOLEAN, deleteFails : BOOLEAN]

\* The accounts without those of the name.
Without(accounts, name) == SelectSeq(accounts, LAMBDA a : a # name)

\* Faulty variant of deleteAccount: the keyring is emptied.
deleteAccountRemovesAll(accounts, name, ans) ==
    IF validateAccountName(name) # "nil"
      THEN [err |-> validateAccountName(name), created |-> FALSE,
            account |-> "", accounts |-> accounts]
    ELSE IF ans.getFails
      THEN [err |-> "failed to check account existence", created |-> FALSE,
            account |-> "", accounts |-> accounts]
    ELSE IF ~HasAccount(accounts, name)
      THEN [err |-> "account does not exist", created |-> FALSE,
            account |-> "", accounts |-> accounts]
    ELSE IF ans.deleteFails
      THEN [err |-> "failed to delete account", created |-> FALSE,
            account |-> "", accounts |-> accounts]
    ELSE [err |-> "nil", created |-> FALSE, account |-> name.id,
          accounts |-> <<>>]

\* deleteAccount(registry, name), the keyring holding `accounts`.
deleteAccount(accounts, name, ans) ==
    IF validateAccountName(name) # "nil"
      THEN [err |-> validateAccountName(name), created |-> FALSE,
            account |-> "", accounts |-> accounts]
    ELSE IF ans.getFails
      THEN [err |-> "failed to check account existence", created |-> FALSE,
            account |-> "", accounts |-> accounts]
    ELSE IF ~HasAccount(accounts, name)
      THEN [err |-> "account does not exist", created |-> FALSE,
            account |-> "", accounts |-> accounts]
    ELSE IF ans.deleteFails
      THEN [err |-> "failed to delete account", created |-> FALSE,
            account |-> "", accounts |-> accounts]
    ELSE [err |-> "nil", created |-> FALSE, account |-> name.id,
          accounts |-> Without(accounts, name)]

\* The answers deleteAccount can get from the keyring holding `accounts`:
\* GetByName is asked for a valid name only, and DeleteByName only when
\* GetByName found the account.
DeleteCalls(accounts, name) ==
    {ans \in DeleteAnswers :
        /\ (validateAccountName(name) # "nil") => ~ans.getFails
        /\ (\/ validateAccountName(name) # "nil"
            \/ ans.getFails
            \/ ~HasAccount(accounts, name)) => ~ans.deleteFails}

\* -------------------------------------------------- functions on their own

\* The functions of the program are also called on their own, as the tests
\* of config_test.go call them: probe holds the function called, its input
\* and, once the call has returned, its result.  No run takes place then.

\* The largest rate a probed configuration is given.
MaxRate == 2

\* The call of `fn` on `in`, not made yet.
ProbeOf(fn, in) == [fn |-> fn, in |-> in, done |-> FALSE, out |-> [err |-> "none"]]

\* The configurations validateConfig is called on: every combination of an
\* empty and a set chain, account and memo, of empty, unreadable and good
\* fees, of the rates from 0, and of a gas limit and an RPC override set or
\* not.
ValidateConfigInputs ==
    { [Chain |-> ch, Account |-> ac, Fees |-> f, Memo |-> m, TPS |-> t,
       GasLimit |-> g, RPC |-> r, Heavy |-> FALSE, HeavyAddressCount |-> 0] :
         ch \in {"", "cosmoshub"}, ac \in {"", "alice"},
         f \in {EmptyStr, Garbage, FeeStr(<<Coin("uatom", 1000)>>)},
         m \in {"", "spam test"}, t \in 0..MaxRate,
         g \in {0, 200000}, r \in {"", "http://localhost:26657"} }

\* The amounts a token of a probed fee string is given.
TokenAmounts == {0, 1, 5, 25, 1000}

\* The fee strings parseAmount is called on: the empty string, a string that
\* is no coin list, and the coin lists of one and of two tokens, the same
\* denomination twice among them.
ParseAmountInputs ==
    {EmptyStr, Garbage}
      \cup { FeeStr(<<Coin(d, a)>>) :
               d \in {"stake", "uatom"}, a \in TokenAmounts }
      \cup { FeeStr(<<Coin(d1, a1), Coin(d2, a2)>>) :
               d1 \in {"stake", "uatom"}, a1 \in TokenAmounts,
               d2 \in {"stake", "uatom"}, a2 \in TokenAmounts }


\* The configurations calculateAddressCount is called on: no override and
\* overrides, with no gas limit and with gas limits below, at and above the
\* overhead of 50000 and the 65000 where the estimate reaches one output.
AddressCountInputs ==
    { MkConfig(1, TRUE, n, g, FeeStr(<<Coin("uatom", 1000)>>)) :
        n \in {0, 1, 25},
        g \in {0, 1, 40000, 49999, 50000, 60000, 64999, 65000, 79999, 80000,
               500000, 2000000} }


\* The amounts a run can hold: what parseAmount returns without error.
ParsedAmounts ==
    { parseAmount(s).coins : s \in {t \in ParseAmountInputs :
                                        parseAmount(t).err = "nil"} }

\* The heavy configurations sendHeavyTransaction is called with: no override
\* and overrides, with no gas limit, one below the overhead and a large one.
HeavyConfigs ==
    { MkConfig(1, TRUE, n, g, FeeStr(<<Coin("uatom", 1000)>>)) :
        n \in {0, 2, 7}, g \in {0, 40000, 500000} }

\* The rates the ticker is created for on its own: config.TPS is a uint64
\* that validateConfig only compares with 0, so every rate but 0 reaches
\* time.NewTicker; among them the rates of TestRateLimiting, the rate of one
\* tick per nanosecond and rates above it.  (A rate from 2^63 on converts to
\* a negative time.Duration, whose interval is not positive either.)
TickerRates == {1, 10, 100, 1000, 1000000000, 1000000001, 2000000000}

\* The calls of sendTransaction: an amount and a transaction number, the
\* hundredth among them.
SimpleInputs ==
    { [active |-> TRUE, heavy |-> FALSE,
       config |-> MkConfig(1, FALSE, 0, 0, FeeStr(<<Coin("uatom", 1000)>>)),
       amount |-> a, txNum |-> n, memo |-> "spam test", sequence |-> 0] :
        a \in ParsedAmounts, n \in {0, 1, 99, 100} }

\* The calls of sendHeavyTransaction: a heavy configuration and an amount.
HeavyInputs ==
    { [active |-> TRUE, heavy |-> TRUE, config |-> c, amount |-> a,
       txNum |-> 0, memo |-> c.Memo, sequence |-> 0] :
        c \in HeavyConfigs, a \in ParsedAmounts }


\* The calls of getChainInfo: a chain name and the registry's answer.
ChainInfoInputs ==
    { [chainName |-> n, registry |-> reg] :
        n \in {"cosmoshub", "nonexistent-chain-12345"},
        reg \in RegistryAnswers }


\* The state in which a function is called on its own: no run is under way.
NoRun ==
    /\ config = MkConfig(1, FALSE, 0, 0, EmptyStr)
    /\ pc = "none"
    /\ result = "none"
    /\ cancelled = FALSE
    /\ sequence = 0
    /\ amount = <<>>
    /\ txCount = 0
    /\ tickerOn = FALSE
    /\ tickerC = 0
    /\ cur = NoCall
    /\ stdout = <<>>
    /\ calls = <<>>
    /\ attempts = <<>>
    /\ pulses = 0
    /\ inflight = 0
    /\ startsSincePulse = 0
    /\ acceptedAtCancel = 0
    /\ startedAfterCancel = 0
    /\ acceptedAfterCancel = 0
    /\ failed = "none"
    /\ rpcEndpoint = ""
    /\ bech32Prefix = ""
    /\ registry = NotAsked

run == <<config, pc, result, cancelled, sequence, amount, txCount, tickerOn,
         tickerC, cur, stdout, calls, attempts, pulses, inflight,
         startsSincePulse, acceptedAtCancel, startedAfterCancel,
         acceptedAfterCancel, failed, rpcEndpoint, bech32Prefix, registry>>

\* Calls made on one keyring.
MaxKeyringCalls == 3

\* A keyring as cosmosaccount.NewInMemory gives it: empty, no call made.
NewInMemory == [fn |-> "keyring", accounts |-> <<>>, log |-> <<>>]

\* One call on the keyring of the probe: the accounts become those of the
\* result, and the call is logged with the accounts before it.
KeyringCall(op, name, ans, r) ==
    /\ probe.fn = "keyring"
    /\ Len(probe.log) < MaxKeyringCalls
    /\ probe' = [probe EXCEPT
                   !.accounts = r.accounts,
                   !.log = Append(@, [op |-> op, name |-> name, ans |-> ans,
                                      before |-> probe.accounts,
                                      err |-> r.err, created |-> r.created,
                                      account |-> r.account])]
    /\ UNCHANGED run


\* ------------------------------------------------- one send call, in time

\* context.WithTimeout(ctx, 30*time.Second): the seconds after which txCtx
\* is done.
SubmissionBound == 30

\* A send call followed step by step: the call it is at, the seconds since
\* txCtx was made, whether ctx, the context of the run, is done, and, once
\* it has returned, its error and what decided it.  The collaborators react
\* at once to the end of the context they were given.
SendStarted(heavy, ctxDone) ==
    [fn |-> "send", heavy |-> heavy, at |-> "account.Address", elapsed |-> 0,
     ctxDone |-> ctxDone, err |-> "pending", cause |-> "none"]

\* txCtx is done: its deadline has passed, or ctx, its parent, is done.
TxCtxDone == probe.ctxDone \/ probe.elapsed >= SubmissionBound

\* The send call returns err, decided by cause.
SendReturns(err, cause) ==
    /\ probe' = [probe EXCEPT !.at = "returned", !.err = err, !.cause = cause]
    /\ UNCHANGED run

\* accountAddr, err := account.Address(addressPrefix)
SendAddress ==
    /\ probe.fn = "send"
    /\ probe.at = "account.Address"
    /\ \/ SendReturns("failed to get account address", "local")
       \/ /\ probe' = [probe EXCEPT !.at = "CreateTxWithOptions"]
          /\ UNCHANGED run

\* txService, err := client.CreateTxWithOptions(ctx, account, ..., msg): it
\* is given ctx, not txCtx; it answers, or ends because ctx is done.
SendCreateTx ==
    /\ probe.fn = "send"
    /\ probe.at = "CreateTxWithOptions"
    /\ \/ /\ probe' = [probe EXCEPT !.at = "BroadcastAsync"]
          /\ UNCHANGED run
       \/ SendReturns("failed to create transaction", "response")
       \/ /\ probe.ctxDone
          /\ SendReturns("failed to create transaction", "ctx")

\* response, err := txService.BroadcastAsync(txCtx, ...): the network
\* answers with a code or with an error, or the call ends because txCtx is
\* done, by its deadline or by ctx.
SendBroadcast ==
    /\ probe.fn = "send"
    /\ probe.at = "BroadcastAsync"
    /\ \/ SendReturns("nil", "response")
       \/ SendReturns("transaction failed with code", "response")
       \/ SendReturns("failed to broadcast transaction", "response")
       \/ /\ probe.elapsed >= SubmissionBound
          /\ SendReturns("failed to broadcast transaction", "deadline")
       \/ /\ probe.ctxDone
          /\ SendReturns("failed to broadcast transaction", "ctx")

\* A second passes while a collaborator is waited for; none passes once the
\* context the collaborator was given is done, as it returns at once.
SendClock ==
    /\ probe.fn = "send"
    /\ \/ probe.at = "CreateTxWithOptions" /\ ~probe.ctxDone
       \/ probe.at = "BroadcastAsync" /\ ~TxCtxDone
    /\ probe.elapsed <= SubmissionBound
    /\ probe' = [probe EXCEPT !.elapsed = @ + 1]
    /\ UNCHANGED run

\* ctx is cancelled while the send call is in progress.
SendCtxCancel ==
    /\ probe.fn = "send"
    /\ probe.at # "returned"
    /\ ~probe.ctxDone
    /\ probe' = [probe EXCEPT !.ctxDone = TRUE]
    /\ UNCHANGED run


UnitInit ==
    /\ NoRun
    /\ \/ \E c \in ValidateConfigInputs : probe = ProbeOf("validateConfig", c)
       \/ \E s \in ParseAmountInputs : probe = ProbeOf("parseAmount", s)
       \/ \E c \in AddressCountInputs :
              probe = ProbeOf("calculateAddressCount", c)
       \/ \E call \in HeavyInputs :
              probe = ProbeOf("sendHeavyTransaction", call)
       \/ \E call \in SimpleInputs :
              probe = ProbeOf("sendTransaction", call)
       \/ \E i \in ChainInfoInputs : probe = ProbeOf("getChainInfo", i)
       \/ probe = NewInMemory
       \/ \E name \in AccountNames :
              probe = ProbeOf("validateAccountName", name)
       \/ \E tps \in TickerRates : probe = ProbeOf("NewTicker", tps)
       \/ \E heavy \in BOOLEAN, ctxDone \in BOOLEAN :
              probe = SendStarted(heavy, ctxDone)

\* The call returns `out`.
Return(out) ==
    /\ ~probe.done
    /\ probe' = [probe EXCEPT !.done = TRUE, !.out = out]
    /\ UNCHANGED run

\* err := validateConfig(config)
CallValidateConfig ==
    /\ probe.fn = "validateConfig"
    /\ Return([err |-> validateConfig(probe.in)])

\* coins, err := parseAmount(amountStr)
CallParseAmount ==
    /\ probe.fn = "parseAmount"
    /\ Return(parseAmount(probe.in))

\* result := calculateAddressCount(config)
CallCalculateAddressCount ==
    /\ probe.fn = "calculateAddressCount"
    /\ Return([err |-> "nil", count |-> calculateAddressCount(probe.in)])

\* outputs := make([]banktypes.Output, outputCount) panics when the count is
\* the wrapped one: that many outputs are beyond what can be allocated.
MakeOutputsPanics(c) == calculateAddressCount(c) = WrappedCount

\* The result of a send call together with what the collaborators answered.
SendResult(r, ans) ==
    [err |-> r.err, msg |-> r.msg, broadcast |-> r.broadcast,
     logged |-> r.logged, ans |-> ans]

\* err := sendHeavyTransaction(ctx, client, account, config, amount, ...)
CallSendHeavyTransaction ==
    /\ probe.fn = "sendHeavyTransaction"
    /\ \E ans \in Answers :
           Return(IF ~ans.addressErr /\ MakeOutputsPanics(probe.in.config)
                    THEN [err |-> "panic: makeslice: len out of range",
                          msg |-> NoMsg, broadcast |-> FALSE,
                          logged |-> FALSE, ans |-> ans]
                    ELSE SendResult(sendTransaction(probe.in, ans), ans))

\* err := sendTransaction(ctx, client, account, config, amount, ...)
CallSendTransaction ==
    /\ probe.fn = "sendTransaction"
    /\ \E ans \in Answers :
           Return(SendResult(sendTransaction(probe.in, ans), ans))

\* interval := time.Second / time.Duration(config.TPS);
\* ticker := time.NewTicker(interval), which panics on an interval that is
\* not positive.
CallNewTicker ==
    /\ probe.fn = "NewTicker"
    /\ Return([err |-> IF Interval(probe.in) > 0
                         THEN "nil"
                         ELSE "panic: non-positive interval for NewTicker",
               interval |-> Interval(probe.in)])

\* rpcEndpoint, bech32Prefix, err := getChainInfo(chainName)
CallGetChainInfo ==
    /\ probe.fn = "getChainInfo"
    /\ Return(getChainInfo(probe.in.chainName, probe.in.registry))

\* account, created, err := getOrCreateAccount(registry, accountName)
CallGetOrCreateAccount ==
    /\ probe.fn = "keyring"
    /\ \E name \in KeyringNames :
         \E ans \in GetOrCreateAnswers(probe.accounts, name) :
           KeyringCall("getOrCreateAccount", name, ans,
                       getOrCreateAccount(probe.accounts, name, ans))

\* err := importAccount(registry, name, secret, passphrase, bech32prefix)
CallImportAccount ==
    /\ probe.fn = "keyring"
    /\ \E name \in KeyringNames :
         \E ans \in ImportCalls(probe.accounts, name) :
           KeyringCall("importAccount", name, ans,
                       importAccount(probe.accounts, name, ans))

\* err := deleteAccount(registry, name)
CallDeleteAccount ==
    /\ probe.fn = "keyring"
    /\ \E name \in KeyringNames :
         \E ans \in DeleteCalls(probe.accounts, name) :
           KeyringCall("deleteAccount", name, ans,
                       deleteAccount(probe.accounts, name, ans))

\* err := validateAccountName(name)
CallValidateAccountName ==
    /\ probe.fn = "validateAccountName"
    /\ Return([err |-> validateAccountName(probe.in)])

UnitNext ==
    \/ CallValidateConfig
    \/ CallParseAmount
    \/ CallCalculateAddressCount
    \/ CallSendHeavyTransaction
    \/ CallSendTransaction
    \/ CallGetChainInfo
    \/ CallNewTicker
    \/ CallGetOrCreateAccount
    \/ CallImportAccount
    \/ CallDeleteAccount
    \/ CallValidateAccountName
    \/ SendAddress
    \/ SendCreateTx
    \/ SendBroadcast
    \/ SendClock
    \/ SendCtxCancel

UnitSpec == UnitInit /\ [][UnitNext]_vars

\* Runs of the command and calls of its functions on their own.
FullSpec == (Init \/ UnitInit) /\ [][Next \/ UnitNext]_vars


\* ------------------------------------------------------------------ claims

Last(log) == log[Len(log)]

\* The accepted attempts of a log before its i-th attempt.
AcceptedBefore(log, i) == Cardinality({j \in Accepted(log) : j < i})

\* The ticker was created: spamTransactions has reached its loop.
LoopEntered == \E i \in 1..Len(calls) : calls[i] = "NewTicker"

\* The run has left the loop of spamTransactions.
LoopLeft == LoopEntered /\ pc = "done"

\* A send call has just returned: the log has one attempt more.
SendReturned == Len(attempts') = Len(attempts) + 1

\* The places of a call in the log of the pre-run calls.
CallsOf(name) == {i \in 1..Len(calls) : calls[i] = name}

\* C1: the sequence passed to the i-th attempt is the fetched base plus the
\* number of attempts accepted before it, for the attempts completed and for
\* the one in flight; successive attempts differ by 0 or 1.
C1_SequenceIsBasePlusAccepted ==
    /\ \A i \in 1..Len(attempts) :
           attempts[i].sequence = sequence + AcceptedBefore(attempts, i)
    /\ \A i \in 2..Len(attempts) :
           attempts[i].sequence - attempts[i-1].sequence \in {0, 1}
    /\ cur.active =>
           cur.sequence = sequence + Cardinality(Accepted(attempts))

\* C1 witness: an accepted, a rejected and an errored attempt, then a fourth
\* attempt, on a base that is not zero.
C1_Witness ==
    /\ Len(attempts) = 4
    /\ sequence = 7
    /\ attempts[1].err = "nil"
    /\ attempts[2].err = "transaction failed with code"
    /\ attempts[3].err = "failed to broadcast transaction"
    /\ attempts[4].sequence = 8

\* C2: a send call that returns an error leaves txCount, sequence and amount
\* as they were, and the next attempt has the same sequence, amount and
\* message; txCount changes only when a send call returns nil, and then by 1.
C2_FailureChangesNothing ==
    /\ [](\A i \in 1..Len(attempts) :
            attempts[i].err # "nil" =>
              /\ i < Len(attempts) =>
                    /\ attempts[i+1].sequence = attempts[i].sequence
                    /\ attempts[i+1].amount = attempts[i].amount
                    /\ attempts[i+1].txNum = attempts[i].txNum
                    /\ (attempts[i].msg # NoMsg /\ attempts[i+1].msg # NoMsg)
                          => attempts[i+1].msg = attempts[i].msg
              /\ (i = Len(attempts) /\ cur.active) =>
                    /\ cur.sequence = attempts[i].sequence
                    /\ cur.amount = attempts[i].amount)
    /\ [][ /\ (SendReturned /\ Last(attempts').err # "nil")
                => UNCHANGED <<txCount, sequence, amount>>
           /\ (SendReturned /\ Last(attempts').err = "nil")
                => txCount' = txCount + 1 /\ UNCHANGED <<sequence, amount>>
           /\ txCount' # txCount
                => SendReturned /\ Last(attempts').err = "nil" ]_vars

\* C2 witness: a rejected attempt and an errored attempt have each been
\* followed by another attempt that built its message, and one was accepted.
C2_Witness ==
    /\ Len(attempts) = 4
    /\ attempts[1].err = "transaction failed with code"
    /\ attempts[2].err = "failed to broadcast transaction"
    /\ attempts[3].err = "nil"
    /\ attempts[3].msg # NoMsg
    /\ txCount = 1

\* C3: the run leaves the loop only from the select, with the context
\* cancelled and the result nil; a send call that returns an error leaves the
\* run in the loop, at the select, with no result and the same sequence on
\* offer.
C3_FailureNeverEndsTheRun ==
    [][ /\ (InLoop /\ ~InLoop')
             => pc = "select" /\ cancelled /\ result' = "nil"
        /\ (SendReturned /\ Last(attempts').err # "nil")
             => /\ pc' = "select"
                /\ result' = "running"
                /\ CurrentSequence(sequence', txCount') = cur.sequence ]_vars

\* C3 witness: four attempts in a row have failed and the loop is running,
\* waiting at its select.
C3_Witness ==
    /\ Len(attempts) = 4
    /\ \A i \in 1..4 : attempts[i].err # "nil"
    /\ pc = "select"
    /\ result = "running"

\* C4: a run that has left the loop returned nil, and the last line it
\* printed is the total, which is txCount, the number of accepted attempts.
C4_CancelReturnsNilAndCount ==
    LoopLeft =>
        /\ result = "nil"
        /\ cancelled
        /\ stdout # <<>>
        /\ Last(stdout) = [line |-> "Sent total", n |-> txCount]
        /\ txCount = Cardinality(Accepted(attempts))

\* C4 witness: a cancelled run that made accepted and failed attempts.
C4_Witness ==
    /\ LoopLeft
    /\ Len(attempts) = 3
    /\ Cardinality(Accepted(attempts)) = 2

\* The total a cancelled run printed.
Reported == Last(stdout).n

C6_Original ==
    [][(cancelled /\ pc = "select") => pc' # "send"]_vars

\* C7: at most one send call is in flight, and it is the call the loop is in.
C7_OneInFlight ==
    /\ inflight <= 1
    /\ inflight = 1 <=> pc = "send"
    /\ cur.active <=> pc = "send"

\* C7 witness: a second send call is in flight after the first completed,
\* with a tick buffered behind it.
C7_Witness ==
    /\ inflight = 1
    /\ Len(attempts) >= 1
    /\ tickerC = 1

\* C8: ticker.C never holds more than one tick, and between two ticks of
\* the ticker at most one send call starts.
C8_NoBurst ==
    /\ tickerC <= 1
    /\ startsSincePulse <= 1

\* C8 witness: three ticks fired while the first send was in flight; that
\* send has returned, one more send has started and returned, and the select
\* finds no tick.
C8_Witness ==
    /\ pulses = 4
    /\ Len(attempts) = 2
    /\ attempts[1].err # "nil"
    /\ startsSincePulse = 1
    /\ pc = "select"
    /\ tickerC = 0

\* C9: the send calls started, with the ticks still buffered, are at most
\* the ticks the ticker has fired.
C9_AttemptsWithinPulses ==
    Len(attempts) + inflight + tickerC <= pulses

\* C9 witness: every tick fired has been used by an attempt.
C9_Witness ==
    /\ pulses = 3
    /\ Len(attempts) = 3

\* C10: fetchAccountSequence is called at most once, after
\* verifyAccountExists and before the loop; a run in its loop has called it
\* exactly once, and from the loop on neither is it called again nor does
\* sequence change.
C10_BaseFetchedOnce ==
    /\ [](/\ Cardinality(CallsOf("fetchAccountSequence")) <= 1
          /\ \A i \in CallsOf("fetchAccountSequence") :
                 /\ i > 1
                 /\ calls[i-1] = "verifyAccountExists"
                 /\ \A j \in CallsOf("NewTicker") : i < j
          /\ (LoopEntered \/ attempts # <<>>) =>
                 Cardinality(CallsOf("fetchAccountSequence")) = 1)
    /\ [][LoopEntered => UNCHANGED <<sequence, calls>>]_vars

\* C10 witness: attempts were accepted and rejected on a fetched base of 7.
C10_Witness ==
    /\ sequence = 7
    /\ Len(attempts) = 3
    /\ Cardinality(Accepted(attempts)) = 1

\* The error spamTransactions returns when a pre-run call fails: the text
\* that names the call.
StepError(step) ==
    CASE step = "getChainInfo" ->
             IF config.RPC # "" THEN "failed to get chain info for bech32 prefix"
                                ELSE "failed to get chain info"
      [] step = "getKeyringHome" -> "failed to get keyring home"
      [] step = "cosmosclient.New" -> "failed to create cosmos client"
      [] step = "client.Account" ->
             "failed to get account from cosmos client keyring"
      [] step = "account.Address" -> "failed to get account from keyring"
      [] step = "verifyAccountExists" -> "account verification failed"
      [] step = "fetchAccountSequence" -> "failed to fetch account sequence"
      [] step = "parseAmount" -> "failed to parse fees as amount"
      [] OTHER -> "nil"

\* The pre-run calls of spamTransactions, in the order it makes them.
PreRunSteps ==
    <<"getChainInfo", "getKeyringHome", "cosmosclient.New", "client.Account",
      "account.Address", "verifyAccountExists", "fetchAccountSequence",
      "parseAmount">>

\* C11: once a pre-run call has failed, the run is over with the error that
\* names that call, the failed call is the last one made, the calls made are
\* the pre-run calls up to it, the ticker was never created, it never fired,
\* and no send call was ever started.
C11_PreRunFailureAborts ==
    failed # "none" =>
        /\ pc = "done"
        /\ result = StepError(failed)
        /\ result # "nil"
        /\ calls # <<>>
        /\ Last(calls) = failed
        /\ calls = SubSeq(PreRunSteps, 1, Len(calls))
        /\ ~LoopEntered
        /\ ~tickerOn
        /\ pulses = 0
        /\ tickerC = 0
        /\ attempts = <<>>
        /\ inflight = 0
        /\ cur = NoCall

\* C11 witness: the sequence fetch failed, after the six calls before it
\* succeeded.
C11_Witness ==
    /\ failed = "fetchAccountSequence"
    /\ Len(calls) = 7
    /\ pc = "done"

\* C12: a run whose rate is 0 is still at RunE or is over with the error of
\* validateConfig about the rate; it made no pre-run call (no network
\* resolution among them), it never computed the interval nor created the
\* ticker, the ticker never fired, and no send call was ever started.
C12_RateZeroRejected ==
    config.TPS = 0 =>
        /\ pc \in {"RunE", "done"}
        /\ pc = "done" => result = "tps must be greater than 0"
        /\ calls = <<>>
        /\ CallsOf("getChainInfo") = {}
        /\ CallsOf("NewTicker") = {}
        /\ ~tickerOn
        /\ pulses = 0
        /\ attempts = <<>>
        /\ inflight = 0
        /\ cur = NoCall
        /\ failed = "none"

\* C12 witness: a run whose rate is 0 was rejected.
C12_Witness ==
    /\ config.TPS = 0
    /\ pc = "done"
    /\ result = "tps must be greater than 0"

\* The result of the probed call of `fn`, once it has returned.
Returned(fn) == probe.fn = fn /\ probe.done

\* C13: validateConfig returns an error exactly when the chain, the account,
\* the fees or the memo is empty or the rate is not greater than 0, whatever
\* the RPC override and the gas limit are, and the error is that of the first
\* failing field in the order chain, account, fees, memo, rate.
C13_ValidateConfig ==
    Returned("validateConfig") =>
        LET c == probe.in
            e == probe.out.err
            bad == <<c.Chain = "", c.Account = "", c.Fees = EmptyStr,
                     c.Memo = "", ~(c.TPS > 0)>>
            text == <<"chain name is required", "account address is required",
                      "fees are required", "memo is required",
                      "tps must be greater than 0">>
        IN  /\ e # "nil" <=> \E i \in 1..5 : bad[i]
            /\ \A i \in 1..5 :
                   (bad[i] /\ \A j \in 1..(i-1) : ~bad[j]) => e = text[i]

\* C13 witness: a configuration with an RPC override and a gas limit, whose
\* account and memo are empty and whose rate is 0, was refused for its
\* account; another, with both set and nothing wrong, was accepted.
C13_Witness ==
    /\ Returned("validateConfig")
    /\ probe.in.RPC # ""
    /\ probe.in.GasLimit > 0
    /\ probe.in.Chain # ""
    /\ probe.in.Account = ""
    /\ probe.in.Memo = ""
    /\ probe.in.TPS = 0
    /\ probe.out.err = "account address is required"


\* The tokens of a fee string whose amount is not zero.
NonZeroTokens(str) == SelectSeq(str.tokens, LAMBDA c : c.Amount # 0)

\* The fee string is not a valid coin list: it does not read as one, or it
\* gives two amounts that count to one denomination.
InvalidCoinList(str) ==
    \/ ~str.wellFormed
    \/ \E i, j \in 1..Len(NonZeroTokens(str)) :
           i # j /\ NonZeroTokens(str)[i].Denom = NonZeroTokens(str)[j].Denom

EstimateOf(g) == (g - GasOverhead) \div GasPerOutput

\* C15, as stated: the output count is the override when that is greater
\* than 0; otherwise, with a gas limit g, floor((g - 50000) / 15000) when that
\* is greater than 0; otherwise 10; and it is always greater than 0.
C15_Original ==
    Returned("calculateAddressCount") =>
        LET c == probe.in
            n == probe.out.count
        IN  /\ n = IF c.HeavyAddressCount > 0 THEN c.HeavyAddressCount
                   ELSE IF c.GasLimit > 0 /\ EstimateOf(c.GasLimit) > 0
                          THEN EstimateOf(c.GasLimit)
                   ELSE DefaultAddressCount
            /\ n > 0

\* C16, as stated: with no override, every gas limit g with 0 < g < 65000
\* gives the default output count 10.
C16_Original ==
    ( /\ Returned("calculateAddressCount")
      /\ probe.in.HeavyAddressCount = 0
      /\ probe.in.GasLimit > 0
      /\ probe.in.GasLimit < GasOverhead + GasPerOutput )
        => probe.out.count = DefaultAddressCount


\* The amount of denomination d in a list of coins.
AmountOf(coins, d) ==
    IF \E i \in 1..Len(coins) : coins[i].Denom = d
      THEN coins[CHOOSE i \in 1..Len(coins) : coins[i].Denom = d].Amount
      ELSE 0

\* The amount of denomination d in the first n outputs.
RECURSIVE SumOfOutputs(_, _, _)
SumOfOutputs(outputs, n, d) ==
    IF n = 0 THEN 0
    ELSE SumOfOutputs(outputs, n - 1, d) + AmountOf(outputs[n].Coins, d)

\* A call of sendHeavyTransaction has returned after it built its message.
HeavyBuilt == Returned("sendHeavyTransaction") /\ probe.out.msg # NoMsg

\* The output count of the probed heavy call.
HeavyCount == calculateAddressCount(probe.in.config)

\* The amount of the probed heavy call divided by the output count.
HeavyQuo == CoinsQuoInt(probe.in.amount, HeavyCount)

\* The message of a heavy call has the shape of a split: outputCount outputs
\* to the account's own address that all carry the same coins, and one input
\* from that address that carries those coins times outputCount, which is
\* the sum of the outputs in every denomination.
HeavyShape ==
    LET m == probe.out.msg
        per == m.Outputs[1].Coins
    IN  /\ m.type = "MsgMultiSend"
        /\ DOMAIN m.Outputs = 1..HeavyCount
        /\ \A i \in 1..HeavyCount :
               m.Outputs[i] = [Address |-> AccountAddr, Coins |-> per]
        /\ Len(m.Inputs) = 1
        /\ m.Inputs[1].Address = AccountAddr
        /\ m.Inputs[1].Coins = CoinsMulInt(per, HeavyCount)
        /\ \A i \in 1..Len(Denoms) :
               AmountOf(m.Inputs[1].Coins, Denoms[i]) =
                   SumOfOutputs(m.Outputs, HeavyCount, Denoms[i])

\* C17, as stated: in every heavy message the outputs carry the amount
\* integer-divided by the output count, and the message has the shape of a
\* split.
C17_Original ==
    HeavyBuilt =>
        /\ probe.out.msg.Outputs[1].Coins = HeavyQuo
        /\ HeavyShape

\* C17: every heavy message has the shape of a split (output-count outputs to
\* the own address with equal coins, one input of those coins times the
\* output count, equal to the sum of the outputs); the outputs carry the
\* amount integer-divided by the output count, per denomination, whenever
\* that quotient is not zero in every denomination, and one unit of the
\* first denomination when it is.
C17_HeavySplit ==
    HeavyBuilt =>
        /\ HeavyShape
        /\ ~CoinsIsZero(HeavyQuo) => probe.out.msg.Outputs[1].Coins = HeavyQuo
        /\ CoinsIsZero(HeavyQuo) =>
               probe.out.msg.Outputs[1].Coins =
                   <<Coin(probe.in.amount[1].Denom, 1)>>

\* C17 witness: 1000uatom over the default 10 outputs gave 100uatom each and
\* an input of 1000uatom, and the transaction was broadcast.
C17_Witness ==
    /\ HeavyBuilt
    /\ probe.in.amount = <<Coin("uatom", 1000)>>
    /\ HeavyCount = DefaultAddressCount
    /\ probe.out.msg.Outputs[1].Coins = <<Coin("uatom", 100)>>
    /\ probe.out.msg.Inputs[1].Coins = <<Coin("uatom", 1000)>>
    /\ probe.out.err = "nil"

\* C18, as stated: whenever the division gives zero for at least one
\* denomination, every output carries one unit of the first denomination
\* and nothing else.
C18_Original ==
    ( /\ HeavyBuilt
      /\ \E i \in 1..Len(HeavyQuo) : HeavyQuo[i].Amount = 0 )
        => \A i \in 1..HeavyCount :
               probe.out.msg.Outputs[i].Coins =
                   <<Coin(probe.in.amount[1].Denom, 1)>>

\* C18: when the division gives zero for every denomination, every output
\* carries one unit of the first denomination and nothing else; when it
\* gives zero for some denominations only, every output carries the
\* quotients, the zero ones among them.
C18_FallbackWhenAllZero ==
    HeavyBuilt =>
        /\ CoinsIsZero(HeavyQuo) =>
               \A i \in 1..HeavyCount :
                   probe.out.msg.Outputs[i].Coins =
                       <<Coin(probe.in.amount[1].Denom, 1)>>
        /\ ( /\ \E i \in 1..Len(HeavyQuo) : HeavyQuo[i].Amount = 0
             /\ \E i \in 1..Len(HeavyQuo) : HeavyQuo[i].Amount # 0 )
               => \A i \in 1..HeavyCount :
                      probe.out.msg.Outputs[i].Coins = HeavyQuo

\* C18 witness: 5stake and 1uatom over 10 outputs, zero in both
\* denominations, gave outputs of 1stake.
C18_Witness ==
    /\ HeavyBuilt
    /\ probe.in.amount = <<Coin("stake", 5), Coin("uatom", 1)>>
    /\ HeavyCount = 10
    /\ probe.out.msg.Outputs[10].Coins = <<Coin("stake", 1)>>

\* C19: when every denomination divides to zero, the input of the message,
\* which is the sum of its outputs, is output-count units of the first
\* denomination and nothing else, and that is more than the amount of the
\* run holds of that denomination; a transaction accepted was broadcast
\* with this message.
C19_FallbackTotalExceeds ==
    (HeavyBuilt /\ CoinsIsZero(HeavyQuo)) =>
        LET m == probe.out.msg
            first == probe.in.amount[1]
        IN  /\ m.Inputs[1].Coins = <<Coin(first.Denom, HeavyCount)>>
            /\ SumOfOutputs(m.Outputs, HeavyCount, first.Denom) = HeavyCount
            /\ DOMAIN m.Outputs = 1..HeavyCount
            /\ HeavyCount > first.Amount
            /\ probe.out.err = "nil" => probe.out.broadcast

\* C19 witness: 5uatom over 10 outputs moved 10uatom, and was broadcast.
C19_Witness ==
    /\ HeavyBuilt
    /\ probe.in.amount = <<Coin("uatom", 5)>>
    /\ HeavyCount = 10
    /\ probe.out.msg.Inputs[1].Coins = <<Coin("uatom", 10)>>
    /\ probe.out.err = "nil"


\* C20, as stated: getChainInfo returns an error with the endpoint and the
\* prefix both empty, or no error with both non-empty; a chain that is not
\* in the registry, one without RPC endpoints and one without a prefix each
\* give an error.
C20_Original ==
    Returned("getChainInfo") =>
        LET r == probe.out
            reg == probe.in.registry
        IN  /\ \/ r.err # "nil" /\ r.rpcEndpoint = "" /\ r.bech32Prefix = ""
               \/ r.err = "nil" /\ r.rpcEndpoint # "" /\ r.bech32Prefix # ""
            /\ ~reg.exists => r.err # "nil"
            /\ reg.RPC = <<>> => r.err # "nil"
            /\ reg.Bech32Prefix = "" => r.err # "nil"


\* C21: a run in which a pre-run call failed is over with the error of that
\* call, not with nil, whether or not the context was cancelled before the
\* run or during the pre-run calls; a run that is over with nil has entered
\* its loop and was cancelled.
C21_CancelledPreRunFailureIsError ==
    /\ failed # "none" =>
           /\ result = StepError(failed)
           /\ result # "nil"
    /\ (pc = "done" /\ result = "nil") =>
           /\ LoopEntered
           /\ cancelled
           /\ failed = "none"

\* C21 witness: the context was cancelled with no attempt made, the client
\* was still built, and the on-chain check of the account failed.
C21_Witness ==
    /\ cancelled
    /\ acceptedAtCancel = 0
    /\ failed = "verifyAccountExists"
    /\ pc = "done"
    /\ result = "account verification failed"


\* The calls of the keyring's log that were getOrCreateAccount.
GetOrCreateCalls ==
    {i \in 1..Len(probe.log) : probe.log[i].op = "getOrCreateAccount"}

\* How many accounts of the list have the name.
CountOf(accounts, name) ==
    Cardinality({i \in 1..Len(accounts) : accounts[i] = name})

\* The accounts of the keyring after the i-th call of its log.
AccountsAfter(i) ==
    IF i = Len(probe.log) THEN probe.accounts ELSE probe.log[i+1].before

\* C22: on a keyring that answers, getOrCreateAccount with a valid name that
\* is absent adds one account of that name and returns created = true, and
\* with a name that is present it returns that account with created = false
\* and leaves the keyring as it is; a call that returns an error creates
\* nothing; so a later call with the name of an earlier successful call
\* never returns created = true, and the keyring never holds two accounts
\* of one name (an account that deleteAccount removed in between is absent
\* again).
C22_GetOrCreateIdempotent ==
    probe.fn = "keyring" =>
        /\ \A i \in GetOrCreateCalls :
               LET c == probe.log[i]
                   valid == validateAccountName(c.name) = "nil"
                   present == HasAccount(c.before, c.name)
               IN  /\ (valid /\ ~present /\ ~c.ans.getFails
                             /\ ~c.ans.createFails) =>
                          /\ c.err = "nil"
                          /\ c.created
                          /\ c.account = c.name.id
                          /\ AccountsAfter(i) = Append(c.before, c.name)
                   /\ (valid /\ present /\ ~c.ans.getFails) =>
                          /\ c.err = "nil"
                          /\ ~c.created
                          /\ c.account = c.name.id
                          /\ AccountsAfter(i) = c.before
                   /\ c.err # "nil" =>
                          /\ ~c.created
                          /\ AccountsAfter(i) = c.before
                   /\ c.created => c.err = "nil" /\ ~present
        /\ \A i, j \in GetOrCreateCalls :
               ( /\ i < j
                 /\ probe.log[i].name = probe.log[j].name
                 /\ probe.log[i].err = "nil"
                 /\ \A k \in (i+1)..(j-1) :
                        \/ probe.log[k].op # "deleteAccount"
                        \/ probe.log[k].name # probe.log[i].name
                        \/ probe.log[k].err # "nil" )
                   => ~probe.log[j].created
        /\ \A name \in AccountNames :
               /\ CountOf(probe.accounts, name) <= 1
               /\ (\E i \in GetOrCreateCalls :
                       /\ probe.log[i].name = name
                       /\ probe.log[i].err = "nil"
                       /\ \A j \in (i+1)..Len(probe.log) :
                              \/ probe.log[j].op # "deleteAccount"
                              \/ probe.log[j].name # name
                              \/ probe.log[j].err # "nil")
                     => CountOf(probe.accounts, name) = 1

\* C22 witness: three calls with one valid name on an empty keyring: the
\* first created the account, the other two returned it, and the keyring
\* holds it once.
C22_Witness ==
    /\ probe.fn = "keyring"
    /\ Len(probe.log) = 3
    /\ \A i \in 1..3 : /\ probe.log[i].op = "getOrCreateAccount"
                       /\ probe.log[i].name = AccountName("alice", 5, FALSE)
                       /\ probe.log[i].err = "nil"
    /\ probe.log[1].created
    /\ ~probe.log[2].created
    /\ ~probe.log[3].created
    /\ probe.accounts = <<AccountName("alice", 5, FALSE)>>


\* A send call followed in time has returned.
SendDone == probe.fn = "send" /\ probe.at = "returned"

\* C23, as stated: a send call that was given to the network is never ended
\* by the cancellation of ctx; what it returns is decided by the answer of
\* the network or by the 30 seconds of its bound.
C23_Original ==
    (SendDone /\ probe.cause # "local") =>
        probe.cause \in {"response", "deadline"}

\* C29, as stated: no send call is still in progress, in the construction of
\* its transaction or in its broadcast, once the 30 seconds of its bound
\* have passed.
C29_Original ==
    (probe.fn = "send" /\ probe.at # "returned") =>
        probe.elapsed <= SubmissionBound


\* A send call probed on its own, in either shape, has returned.
SendReturnedProbe ==
    /\ probe.fn \in {"sendTransaction", "sendHeavyTransaction"}
    /\ probe.done
    /\ probe.out.err # "panic: makeslice: len out of range"

\* How an attempt ended, by the error of its send call.
Outcome(err) ==
    CASE err = "nil" -> "Accepted"
      [] err = "transaction failed with code" -> "Rejected"
      [] OTHER -> "TransportError"

C25_OneCallPerPulse ==
    [][ /\ (cur'.active /\ cur' # cur) =>
              /\ pc = "select" /\ ~cur.active
              /\ tickerC > 0 /\ tickerC' = tickerC - 1
              /\ attempts' = attempts
        /\ (tickerC' = tickerC - 1) =>
              /\ pc' = "send" /\ cur'.active
              /\ inflight' = inflight + 1
        /\ (attempts' # attempts) =>
              /\ pc = "send" /\ cur.active
              /\ Len(attempts') = Len(attempts) + 1
              /\ pc' = "select" /\ cur' = NoCall
              /\ tickerC' = tickerC
        /\ (pc = "send" /\ pc' = "send") => (cur' = cur /\ attempts' = attempts)
      ]_vars

\* C25 witness: the first send call failed, and its sequence was offered
\* again by the second call, which a second tick started.
C25_Witness ==
    /\ Len(attempts) = 2
    /\ attempts[1].err # "nil"
    /\ attempts[2].sequence = attempts[1].sequence
    /\ pulses = 2
    /\ tickerC = 0
    /\ pc = "select"


\* The milestone lines printed so far.
MilestoneLines == SelectSeq(stdout, LAMBDA l : l.line = "Sent")

\* C26: an attempt prints the milestone line exactly when it was accepted
\* and the success count it brought about is a multiple of config.TPS; an
\* attempt that failed prints none; the lines printed are those of the
\* multiples of the rate reached so far, each once and in order.
C26_MilestoneOnMultiple ==
    LoopEntered =>
        /\ \A i \in 1..Len(attempts) :
               /\ attempts[i].milestone <=>
                      /\ attempts[i].err = "nil"
                      /\ (AcceptedBefore(attempts, i) + 1) % config.TPS = 0
               /\ attempts[i].err # "nil" => ~attempts[i].milestone
        /\ Len(MilestoneLines) = txCount \div config.TPS
        /\ \A k \in 1..Len(MilestoneLines) :
               MilestoneLines[k].n = k * config.TPS
        /\ \A k, m \in 1..Len(MilestoneLines) :
               MilestoneLines[k].n = MilestoneLines[m].n => k = m

\* C26 witness: at rate 2 the first attempt was accepted without a line, the
\* second failed without a line, the third was accepted and printed the
\* line of count 2.
C26_Witness ==
    /\ config.TPS = 2
    /\ Len(attempts) = 3
    /\ attempts[1].err = "nil" /\ ~attempts[1].milestone
    /\ attempts[2].err # "nil" /\ ~attempts[2].milestone
    /\ attempts[3].err = "nil" /\ attempts[3].milestone
    /\ MilestoneLines = <<[line |-> "Sent", n |-> 2, rate |-> 2]>>


\* C27 as stated: the number a send call samples its log line by is the
\* index of the attempt, one more for every attempt made, failed ones
\* included, and an attempt logs the hash and memo exactly when it was
\* accepted and that index is a multiple of 100.
C27_Original ==
    \A i \in 1..Len(attempts) :
        /\ attempts[i].txNum = i - 1
        /\ attempts[i].logged <=>
               (attempts[i].err = "nil" /\ (i - 1) % LogEvery = 0)


\* The pre-run calls followed by the creation of the ticker.
StartUp == PreRunSteps \o <<"NewTicker">>

\* The place of a call in the start-up order, 0 when it is none of them.
StepNo(name) ==
    IF \E k \in 1..Len(StartUp) : StartUp[k] = name
      THEN CHOOSE k \in 1..Len(StartUp) : StartUp[k] = name
      ELSE 0

\* C28: the calls made at start-up are always a beginning of the order
\* getChainInfo, getKeyringHome, cosmosclient.New, client.Account,
\* account.Address, verifyAccountExists, fetchAccountSequence, parseAmount,
\* NewTicker, each made once; a call that failed is the last one made, so
\* every call was made only after all before it succeeded; the run stands
\* at the call after the last one made; the sequence was fetched only with
\* the on-chain check passed, and the ticker was created only with the
\* amount parsed.
C28_PreRunOrder ==
    (pc # "RunE" /\ pc # "none") =>
        /\ Len(calls) <= Len(StartUp)
        /\ calls = SubSeq(StartUp, 1, Len(calls))
        /\ failed # "none" =>
               /\ calls # <<>>
               /\ failed = calls[Len(calls)]
               /\ pc = "done"
        /\ StepNo(pc) # 0 => (Len(calls) = StepNo(pc) - 1 /\ failed = "none")
        /\ (\E k \in 1..Len(calls) : calls[k] = "fetchAccountSequence") =>
               /\ calls[6] = "verifyAccountExists"
               /\ failed \notin {"getChainInfo", "getKeyringHome",
                                 "cosmosclient.New", "client.Account",
                                 "account.Address", "verifyAccountExists"}
        /\ (tickerOn \/ pulses > 0 \/ LoopEntered) =>
               /\ calls = StartUp
               /\ failed = "none"
               /\ amount = parseAmount(config.Fees).coins
               /\ parseAmount(config.Fees).err = "nil"

\* C28 witness: all eight pre-run calls succeeded in order, the ticker was
\* created after them and the loop waits for its first tick.
C28_Witness ==
    /\ calls = StartUp
    /\ failed = "none"
    /\ pc = "select"
    /\ tickerOn
    /\ pulses = 0
    /\ attempts = <<>>
    /\ ~cancelled


\* The run has config.RPC set and has asked the registry.
OverrideRun == config.RPC # "" /\ registry # NotAsked

\* C30: in a run with config.RPC set, once the registry has answered: when
\* getChainInfo succeeds the client's endpoint is config.RPC and not the
\* endpoint of the registry, the prefix is the registry's, and every
\* attempt went to config.RPC; when the chain is not in the registry, or it
\* lists no RPC endpoint, or it has no prefix, or the registry cannot be
\* read, the run is over with the error of getChainInfo and without an
\* attempt.
C30_OverrideEndpoint ==
    OverrideRun =>
        LET r == getChainInfo(config.Chain, registry) IN
        /\ (\/ ~registry.exists
            \/ registry.RPC = <<>>
            \/ registry.Bech32Prefix = "") => r.err # "nil"
        /\ r.err # "nil" =>
               /\ failed = "getChainInfo"
               /\ pc = "done"
               /\ result = "failed to get chain info for bech32 prefix"
               /\ calls = <<"getChainInfo">>
               /\ attempts = <<>>
               /\ ~tickerOn
        /\ r.err = "nil" =>
               /\ rpcEndpoint = config.RPC
               /\ rpcEndpoint # registry.RPC[1]
               /\ bech32Prefix = registry.Bech32Prefix
               /\ bech32Prefix # ""
               /\ \A i \in 1..Len(attempts) :
                      /\ attempts[i].node = config.RPC
                      /\ attempts[i].node # registry.RPC[1]

\* C30 witness: with config.RPC set and the registry listing its own
\* endpoint, a transaction was broadcast to config.RPC and accepted.
C30_Witness ==
    /\ OverrideRun
    /\ config.RPC = "http://localhost:26657"
    /\ registry.RPC = <<"https://rpc.cosmos.network">>
    /\ bech32Prefix = "cosmos"
    /\ Len(attempts) = 1
    /\ attempts[1].err = "nil"
    /\ attempts[1].broadcast
    /\ attempts[1].node = "http://localhost:26657"


\* A configuration that is complete but for its rate.
ConfigOfRate(tps) == MkConfig(tps, FALSE, 0, 0, FeeStr(<<Coin("uatom", 1000)>>))

\* C31 as stated: for every rate that validateConfig lets pass, the interval
\* of one second divided by the rate is above 0 and the ticker is created
\* without a panic; for the rates 1, 10, 100 and 1000 it is 1 s, 100 ms,
\* 10 ms and 1 ms.
C31_Original ==
    (/\ probe.fn = "NewTicker"
     /\ probe.done
     /\ validateConfig(ConfigOfRate(probe.in)) = "nil") =>
        /\ probe.out.interval > 0
        /\ probe.out.err = "nil"
        /\ probe.in = 1 => probe.out.interval = 1000000000
        /\ probe.in = 10 => probe.out.interval = 100000000
        /\ probe.in = 100 => probe.out.interval = 10000000
        /\ probe.in = 1000 => probe.out.interval = 1000000


\* The heavy call probed replaced the quotient by the unit of the first
\* denomination.
FallbackApplied ==
    /\ probe.out.msg.Outputs[1].Coins = <<Coin(probe.in.amount[1].Denom, 1)>>
    /\ probe.out.msg.Outputs[1].Coins # HeavyQuo

\* C32: a heavy message carries the fallback exactly when the amount divided
\* by the output count is zero in every denomination; when it is zero in
\* some denominations only, every output carries, in each denomination, the
\* quotient of that denomination, above zero where the quotient is, and the
\* input carries nothing of a denomination whose quotient is zero and the
\* quotient times the output count of the others.
C32_FallbackExactlyAllZero ==
    HeavyBuilt =>
        LET m == probe.out.msg
            amt == probe.in.amount
        IN
        /\ FallbackApplied <=> CoinsIsZero(HeavyQuo)
        /\ ~CoinsIsZero(HeavyQuo) =>
               \A k \in 1..Len(amt) :
                   LET d == amt[k].Denom
                       share == amt[k].Amount \div HeavyCount
                   IN  /\ \A i \in 1..HeavyCount :
                              AmountOf(m.Outputs[i].Coins, d) = share
                       /\ AmountOf(m.Inputs[1].Coins, d) = share * HeavyCount
                       /\ share = 0 => AmountOf(m.Inputs[1].Coins, d) = 0

\* C32 witness: 1stake and 5uatom over 2 outputs: the share of stake is
\* zero, that of uatom is 2; there is no fallback, the outputs carry 2uatom
\* and the input 4uatom and no stake.
C32_Witness ==
    /\ HeavyBuilt
    /\ probe.in.amount = <<Coin("stake", 1), Coin("uatom", 5)>>
    /\ HeavyCount = 2
    /\ ~FallbackApplied
    /\ AmountOf(probe.out.msg.Outputs[2].Coins, "uatom") = 2
    /\ AmountOf(probe.out.msg.Outputs[2].Coins, "stake") = 0
    /\ AmountOf(probe.out.msg.Inputs[1].Coins, "uatom") = 4
    /\ AmountOf(probe.out.msg.Inputs[1].Coins, "stake") = 0


\* C33: in a heavy message without the fallback, in every denomination of
\* the amount, what the outputs carry together, which is what the input
\* carries, is at most the amount, is less than the output count short of
\* it, and is the amount exactly when the output count divides it.
C33_TotalWithinAmount ==
    (HeavyBuilt /\ ~FallbackApplied) =>
        LET m == probe.out.msg
            amt == probe.in.amount
        IN  \A k \in 1..Len(amt) :
                LET d == amt[k].Denom
                    a == amt[k].Amount
                    total == SumOfOutputs(m.Outputs, HeavyCount, d)
                IN  /\ total = AmountOf(m.Inputs[1].Coins, d)
                    /\ total <= a
                    /\ a - total < HeavyCount
                    /\ total = a <=> a % HeavyCount = 0

\* C33 witness: 1000uatom over 7 outputs moved 994uatom, 6 short.
C33_Witness ==
    /\ HeavyBuilt
    /\ ~FallbackApplied
    /\ probe.in.amount = <<Coin("uatom", 1000)>>
    /\ HeavyCount = 7
    /\ probe.out.msg.Outputs[7].Coins = <<Coin("uatom", 142)>>
    /\ probe.out.msg.Inputs[1].Coins = <<Coin("uatom", 994)>>


\* The errors a send call returns before it reaches BroadcastAsync.
PreBroadcastErrors ==
    {"failed to get account address", "failed to create transaction"}

\* C34: a send call in which account.Address or CreateTxWithOptions fails
\* returns the error of that step without calling BroadcastAsync, in either
\* shape; in a run, the step in which such a call returns logs the failure,
\* leaves the success count, the sequence fetched, the printed lines and
\* the result of the run as they were, and puts the loop back at its select
\* with no call in progress; the attempt after it offers the same sequence.
C34_PreBroadcastFailure ==
    [][ /\ SendReturnedProbe' =>
              LET ans == probe'.out.ans IN
              /\ ans.addressErr =>
                     /\ probe'.out.err = "failed to get account address"
                     /\ ~probe'.out.broadcast
              /\ (~ans.addressErr /\ ans.createErr) =>
                     /\ probe'.out.err = "failed to create transaction"
                     /\ ~probe'.out.broadcast
        /\ (/\ Len(attempts') = Len(attempts) + 1
            /\ attempts'[Len(attempts')].err \in PreBroadcastErrors) =>
              /\ ~attempts'[Len(attempts')].broadcast
              /\ attempts'[Len(attempts')].failureLogged
              /\ ~attempts'[Len(attempts')].milestone
              /\ txCount' = txCount
              /\ sequence' = sequence
              /\ stdout' = stdout
              /\ result' = result
              /\ pc' = "select"
              /\ cur' = NoCall
        /\ \A i \in 1..(Len(attempts') - 1) :
              attempts'[i].err \in PreBroadcastErrors =>
                  /\ attempts'[i + 1].sequence = attempts'[i].sequence
                  /\ attempts'[i + 1].txNum = attempts'[i].txNum
      ]_vars

\* C34 witness: the first attempt failed at CreateTxWithOptions without a
\* broadcast, and the second, on the next tick, was broadcast with the same
\* sequence and accepted.
C34_Witness ==
    /\ Len(attempts) = 2
    /\ attempts[1].err = "failed to create transaction"
    /\ ~attempts[1].broadcast
    /\ attempts[1].failureLogged
    /\ attempts[2].err = "nil"
    /\ attempts[2].broadcast
    /\ attempts[2].sequence = attempts[1].sequence
    /\ txCount = 1
    /\ pulses = 2


\* The names validateAccountName refuses for being empty, holding a space or
\* being shorter than 2 characters.
InvalidName(name) == name.len = 0 \/ name.space \/ name.len < 2

\* C35: on a keyring, getOrCreateAccount, importAccount and deleteAccount
\* called with a name that is empty, holds a space or is shorter than 2
\* characters return the error of validateAccountName and leave the
\* accounts as they were; deleteAccount with a valid name the keyring does
\* not hold returns an error and leaves the accounts as they were; and
\* deleteAccount with a name the keyring holds, the keyring answering,
\* returns nil and leaves the accounts without that one, the others in
\* place.
C35_KeyringNameChecks ==
    probe.fn = "keyring" =>
        \A i \in 1..Len(probe.log) :
            LET c == probe.log[i]
                after == AccountsAfter(i)
            IN  /\ InvalidName(c.name) =>
                       /\ c.op \in {"getOrCreateAccount", "importAccount",
                                    "deleteAccount"}
                       /\ c.err # "nil"
                       /\ c.err = validateAccountName(c.name)
                       /\ after = c.before
                /\ (/\ c.op = "deleteAccount"
                    /\ ~InvalidName(c.name)
                    /\ ~HasAccount(c.before, c.name)) =>
                       /\ c.err # "nil"
                       /\ after = c.before
                /\ (/\ c.op = "deleteAccount"
                    /\ HasAccount(c.before, c.name)
                    /\ ~c.ans.getFails /\ ~c.ans.deleteFails) =>
                       /\ c.err = "nil"
                       /\ ~HasAccount(after, c.name)
                       /\ Len(after) = Len(c.before) - 1
                       /\ after = Without(c.before, c.name)
                       /\ \A name \in KeyringNames :
                              name # c.name =>
                                  CountOf(after, name) = CountOf(c.before, name)

\* C35 witness: alice and bob were put in the keyring, then deleteAccount
\* with alice left bob alone.
C35_Witness ==
    /\ probe.fn = "keyring"
    /\ Len(probe.log) = 3
    /\ probe.log[1].op = "importAccount"
    /\ probe.log[2].op = "getOrCreateAccount"
    /\ probe.log[3].op = "deleteAccount"
    /\ probe.log[3].name = AccountName("alice", 5, FALSE)
    /\ probe.log[3].before = <<AccountName("alice", 5, FALSE),
                               AccountName("bob", 3, FALSE)>>
    /\ probe.log[3].err = "nil"
    /\ probe.accounts = <<AccountName("bob", 3, FALSE)>>


\* C36 as stated: validateAccountName returns an error for every name of 50
\* characters or more, and nil only for names shorter than 50.
C36_Original ==
    Returned("validateAccountName") =>
        /\ probe.in.len >= 50 => probe.out.err # "nil"
        /\ probe.out.err = "nil" => probe.in.len < 50


====
